---------------------------- MODULE Spec2Model ----------------------------
(***************************************************************************)
(* OptimizationRuleModel: the rule matcher (matchByRules) and the rule     *)
(* store query findByOrganizationId, with create / update / delete.        *)
(*                                                                         *)
(* matchByRules is a synchronous function.  It is modelled as the three    *)
(* phases of its body: the grouping loop, the evaluation of one group per  *)
(* step in Object.entries order, and the final "return null".              *)
(***************************************************************************)
EXTENDS Integers, Sequences, FiniteSets, TLC

VARIABLES
    rules,                  \* matchByRules: the rules argument
    context,                \* matchByRules: the context argument
    pc,                     \* position inside matchByRules
    rulesByModel,           \* the local object, as its own properties in insertion order
    entries,                \* Object.entries(rulesByModel), the list the outer loop walks
    g,                      \* index of the entry the outer loop is at
    match,                  \* the local flag of the group evaluated last
    result,                 \* how the call ended
    prev,                   \* an earlier call the caller remembers: its arguments and result
    optimizationRulesTable, \* rows of schema.optimizationRulesTable
    teamsTable,             \* rows of schema.teamsTable
    found                   \* what the last findByOrganizationId returned

matcherVars == <<rules, context, pc, rulesByModel, entries, g, match, result, prev>>
storeVars == <<optimizationRulesTable, teamsTable, found>>
vars == <<rules, context, pc, rulesByModel, entries, g, match, result, prev,
          optimizationRulesTable, teamsTable, found>>

-----------------------------------------------------------------------------
(* Bounds *)

MaxRules == 3
MaxLength == 1
MaxAnyRules == 2
MaxCallRules == 1
MaxStoredRules == 2

-----------------------------------------------------------------------------
(* JavaScript values *)

\* conditions.maxLength / conditions.hasTools: a missing property reads as undefined
HasProp(obj, name) == name \in DOMAIN obj

\* a > b on a number a and a number-or-undefined b: undefined converts to NaN,
\* and every comparison with NaN is false
JsGreater(a, obj, name) == IF HasProp(obj, name) THEN a > obj[name] ELSE FALSE

\* a !== b on a boolean a and a boolean-or-undefined b
JsStrictNotEqual(a, obj, name) == IF HasProp(obj, name) THEN a # obj[name] ELSE TRUE

\* Names every plain object inherits from Object.prototype (a sample of them)
ObjectPrototypeKeys == {"constructor", "toString", "valueOf", "hasOwnProperty", "__proto__"}

\* The value of a property key that is a canonical array index, -1 for any other key
ArrayIndexOf(key) ==
    CASE key = "3" -> 3
      [] key = "7" -> 7
      [] OTHER -> -1

IsArrayIndex(key) == ArrayIndexOf(key) >= 0

-----------------------------------------------------------------------------
(* The grouping loop *)

EmptyObject == <<>>

OwnIndex(obj, key) ==
    IF \E k \in 1..Len(obj) : obj[k].model = key
    THEN CHOOSE k \in 1..Len(obj) : obj[k].model = key
    ELSE 0

\* GroupStep without `if (!rule.enabled) continue`
GroupStepKeepsDisabled(st, rule) ==
    IF st.thrown THEN st
    ELSE LET model == rule.targetModel
             k == OwnIndex(st.obj, model)
         IN  IF k > 0
             THEN [st EXCEPT !.obj[k].modelRules = Append(@, rule)]
             ELSE IF model \in ObjectPrototypeKeys
                  THEN [st EXCEPT !.thrown = TRUE]
                  ELSE [st EXCEPT !.obj = Append(@, [model |-> model, modelRules |-> <<rule>>])]

\* GroupStep with `rulesByModel[model] = [rule]` in place of the push
GroupStepOverwrites(st, rule) ==
    IF st.thrown \/ ~rule.enabled THEN st
    ELSE LET model == rule.targetModel
             k == OwnIndex(st.obj, model)
         IN  IF k > 0
             THEN [st EXCEPT !.obj[k].modelRules = <<rule>>]
             ELSE IF model \in ObjectPrototypeKeys
                  THEN [st EXCEPT !.thrown = TRUE]
                  ELSE [st EXCEPT !.obj = Append(@, [model |-> model, modelRules |-> <<rule>>])]

\* One iteration of `for (const rule of rules)`; st = [obj, thrown]
GroupStep(st, rule) ==
    IF st.thrown \/ ~rule.enabled THEN st
    ELSE LET model == rule.targetModel
             k == OwnIndex(st.obj, model)
         IN  IF k > 0
             THEN [st EXCEPT !.obj[k].modelRules = Append(@, rule)]
             ELSE IF model \in ObjectPrototypeKeys
                  \* rulesByModel[model] is the inherited member: truthy, and not an array
                  THEN [st EXCEPT !.thrown = TRUE]
                  ELSE [st EXCEPT !.obj = Append(@, [model |-> model, modelRules |-> <<rule>>])]

RECURSIVE GroupLoop(_, _, _)
GroupLoop(rs, i, st) ==
    IF i > Len(rs) THEN st ELSE GroupLoop(rs, i + 1, GroupStep(st, rs[i]))

\* The loop, run on the object as it stands
GroupInto(obj, rs) == GroupLoop(rs, 1, [obj |-> obj, thrown |-> FALSE])

\* `const rulesByModel = {}` and the loop
GroupRules(rs) == GroupInto(EmptyObject, rs)

-----------------------------------------------------------------------------
(* Object.entries: array-index keys in ascending order, then the other keys *)
(* in insertion order                                                       *)

RECURSIVE SortByIndex(_)
SortByIndex(S) ==
    IF S = {} THEN <<>>
    ELSE LET lo == CHOOSE e \in S : \A o \in S : ArrayIndexOf(e.model) <= ArrayIndexOf(o.model)
         IN  <<lo>> \o SortByIndex(S \ {lo})

IsIndexEntry(e) == IsArrayIndex(e.model)

IsStringEntry(e) == ~IsArrayIndex(e.model)

ObjectEntries(obj) ==
    SortByIndex({obj[k] : k \in {j \in 1..Len(obj) : IsIndexEntry(obj[j])}})
        \o SelectSeq(obj, IsStringEntry)

-----------------------------------------------------------------------------
(* The evaluation of one group *)

\* RuleFails with `>=` in place of `>`
RuleFailsAtBound(rule, ctx) ==
    IF rule.ruleType = "content_length"
    THEN HasProp(rule.conditions, "maxLength") /\ ctx.tokenCount >= rule.conditions.maxLength
    ELSE IF rule.ruleType = "tool_presence"
         THEN JsStrictNotEqual(ctx.hasTools, rule.conditions, "hasTools")
         ELSE FALSE

\* RuleFails with `!context.hasTools && conditions.hasTools` in place of `!==`
RuleFailsOnlyWhenToolsRequired(rule, ctx) ==
    IF rule.ruleType = "content_length"
    THEN JsGreater(ctx.tokenCount, rule.conditions, "maxLength")
    ELSE IF rule.ruleType = "tool_presence"
         THEN HasProp(rule.conditions, "hasTools") /\ rule.conditions.hasTools /\ ~ctx.hasTools
         ELSE FALSE

\* The two `if` conditions that set match = false
RuleFails(rule, ctx) ==
    IF rule.ruleType = "content_length"
    THEN JsGreater(ctx.tokenCount, rule.conditions, "maxLength")
    ELSE IF rule.ruleType = "tool_presence"
         THEN JsStrictNotEqual(ctx.hasTools, rule.conditions, "hasTools")
         ELSE FALSE

\* `let match = true; for (const rule of modelRules) { ... break; }`
GroupMatches(modelRules, ctx) ==
    \A k \in 1..Len(modelRules) : ~RuleFails(modelRules[k], ctx)

-----------------------------------------------------------------------------
(* Outcomes of a call *)

NoResult == [kind |-> "none", value |-> ""]
ReturnNull == [kind |-> "null", value |-> ""]
ReturnModel(model) == [kind |-> "model", value |-> model]
ThrowTypeError == [kind |-> "throw", value |-> "TypeError"]

RECURSIVE FirstMatch(_, _, _)
FirstMatch(es, k, ctx) ==
    IF k > Len(es) THEN ReturnNull
    ELSE IF GroupMatches(es[k].modelRules, ctx) THEN ReturnModel(es[k].model)
         ELSE FirstMatch(es, k + 1, ctx)

\* The whole function, as a function of its arguments
MatchByRules(rs, ctx) ==
    LET st == GroupRules(rs)
    IN  IF st.thrown THEN ThrowTypeError
        ELSE FirstMatch(ObjectEntries(st.obj), 1, ctx)

-----------------------------------------------------------------------------
(* The rule store *)

OrgIds == {"org1", "org2"}

TeamIds == {"team1", "team2"}

EntityIds == OrgIds \cup TeamIds

RuleIds == 1..MaxStoredRules

\* The columns of optimizationRulesTable the queries read, and the primary key
RuleRows == [id : RuleIds, entityType : {"organization", "team"},
             entityId : EntityIds, enabled : BOOLEAN]

TeamRows == [id : TeamIds, organizationId : OrgIds]

\* teamsTable.id is the primary key of the teams table
TeamsTables == {T \in SUBSET TeamRows : \A a, b \in T : a.id = b.id => a = b}

Null == "NULL"

NullTeam == [id |-> Null, organizationId |-> Null]

\* eq(a, b) of SQL: not true when a side is NULL
SqlEq(a, b) == a # Null /\ b # Null /\ a = b

\* the ON condition of the join
JoinOn(r, t) == SqlEq(r.entityType, "team") /\ SqlEq(r.entityId, t.id)

\* innerJoin in place of leftJoin
InnerJoin(table, teams) ==
    {p \in table \X teams : JoinOn(p[1], p[2])}

\* optimizationRulesTable LEFT JOIN teamsTable ON ...
LeftJoin(table, teams) ==
    {p \in table \X teams : JoinOn(p[1], p[2])}
    \cup {<<r, NullTeam>> : r \in {x \in table : \A u \in teams : ~JoinOn(x, u)}}

\* the WHERE condition
Where(r, t, organizationId) ==
    \/ SqlEq(r.entityType, "organization") /\ SqlEq(r.entityId, organizationId)
    \/ SqlEq(r.entityType, "team") /\ SqlEq(t.organizationId, organizationId)

\* The rows the query returns, each with the number of times it is returned
FindByOrganizationId(table, teams, organizationId) ==
    LET joined == {p \in LeftJoin(table, teams) : Where(p[1], p[2], organizationId)}
        returned == {p[1] : p \in joined}
    IN  [r \in returned |-> Cardinality({p \in joined : p[1] = r})]

NotFound == [organizationId |-> Null, rows |-> <<>>]

-----------------------------------------------------------------------------
(* Arguments of a call *)

ContentLengthConditions == {[maxLength |-> n] : n \in 0..MaxLength}

ToolPresenceConditions == {[hasTools |-> b] : b \in BOOLEAN}

\* Rules whose conditions have the shape their ruleType asks for
WellFormedRules(models) ==
    [enabled : BOOLEAN, targetModel : models,
     ruleType : {"content_length"}, conditions : ContentLengthConditions]
    \cup
    [enabled : BOOLEAN, targetModel : models,
     ruleType : {"tool_presence"}, conditions : ToolPresenceConditions]

\* Rules as the untyped `conditions` column and an unchecked ruleType allow them
AnyRules(models) ==
    [enabled : BOOLEAN, targetModel : models,
     ruleType : {"content_length", "tool_presence", "unknown_type"},
     conditions : ContentLengthConditions \cup ToolPresenceConditions]

Contexts == [tokenCount : 0..(MaxLength + 1), hasTools : BOOLEAN]

SeqsUpTo(S, n) == UNION {[1..k -> S] : k \in 0..n}

ModelNames == {"small-model", "large-model"}

AnyModelNames == {"small-model", "7", "3", "constructor"}

GroupModelNames == {"small-model", "large-model", "7"}

-----------------------------------------------------------------------------
(* matchByRules *)

StartCall(rs, ctx) ==
    /\ rules = rs
    /\ context = ctx
    /\ pc = "call"
    /\ rulesByModel = EmptyObject
    /\ entries = <<>>
    /\ g = 0
    /\ match = TRUE
    /\ result = NoResult

NoCall == [rules |-> <<>>, context |-> [tokenCount |-> 0, hasTools |-> FALSE], result |-> NoResult]

NoStore ==
    /\ optimizationRulesTable = {}
    /\ teamsTable = {}
    /\ found = NotFound

Init ==
    /\ \E rs \in SeqsUpTo(WellFormedRules(ModelNames), MaxRules), ctx \in Contexts :
            StartCall(rs, ctx)
    /\ prev = NoCall
    /\ NoStore

InitAny ==
    /\ \E rs \in SeqsUpTo(AnyRules(AnyModelNames), MaxAnyRules), ctx \in Contexts :
            StartCall(rs, ctx)
    /\ prev = NoCall
    /\ NoStore

\* Enabled rules only, of three target models, one of them an array-index key
InitGroups ==
    /\ \E rs \in SeqsUpTo({r \in WellFormedRules(GroupModelNames) : r.enabled}, MaxRules),
          ctx \in Contexts :
            StartCall(rs, ctx)
    /\ prev = NoCall
    /\ NoStore

\* lines 216-226: the grouping loop, then Object.entries of its result
Group ==
    /\ pc = "call"
    /\ LET st == GroupInto(rulesByModel, rules)
       IN  /\ rulesByModel' = st.obj
           /\ IF st.thrown
              THEN /\ pc' = "done"
                   /\ result' = ThrowTypeError
                   /\ UNCHANGED <<entries, g>>
              ELSE /\ pc' = "eval"
                   /\ entries' = ObjectEntries(st.obj)
                   /\ g' = 1
                   /\ UNCHANGED result
    /\ UNCHANGED <<rules, context, match, prev>>
    /\ UNCHANGED storeVars

\* lines 226-248: one iteration of the loop over the entries
EvalGroup ==
    /\ pc = "eval"
    /\ g <= Len(entries)
    /\ match' = GroupMatches(entries[g].modelRules, context)
    /\ IF match'
       THEN /\ result' = ReturnModel(entries[g].model)
            /\ pc' = "done"
            /\ UNCHANGED g
       ELSE /\ g' = g + 1
            /\ UNCHANGED <<result, pc>>
    /\ UNCHANGED <<rules, context, rulesByModel, entries, prev>>
    /\ UNCHANGED storeVars

\* line 250
NoMatch ==
    /\ pc = "eval"
    /\ g > Len(entries)
    /\ result' = ReturnNull
    /\ pc' = "done"
    /\ UNCHANGED <<rules, context, rulesByModel, entries, g, match, prev>>
    /\ UNCHANGED storeVars

Next == Group \/ EvalGroup \/ NoMatch

Spec == Init /\ [][Next]_vars

SpecAny == InitAny /\ [][Next]_vars

SpecGroups == InitGroups /\ [][Next]_vars

Done == pc = "done"

-----------------------------------------------------------------------------
(* Repeated calls *)

CallModelNames == {"small-model"}

CallRules == SeqsUpTo({r \in WellFormedRules(CallModelNames) : r.enabled}, MaxCallRules)

InitCalls ==
    /\ \E rs \in CallRules, ctx \in Contexts : StartCall(rs, ctx)
    /\ prev = NoCall
    /\ NoStore

\* Call with rulesByModel kept from the call before (one object for all calls)
CallKeepsObject ==
    /\ pc = "done"
    /\ \E rs \in CallRules, ctx \in Contexts :
            /\ rules' = rs
            /\ context' = ctx
    /\ pc' = "call"
    /\ entries' = <<>>
    /\ g' = 0
    /\ match' = TRUE
    /\ result' = NoResult
    /\ \/ prev' = [rules |-> rules, context |-> context, result |-> result]
       \/ UNCHANGED prev
    /\ UNCHANGED rulesByModel
    /\ UNCHANGED storeVars

\* The caller calls again, with the same or other arguments, and may remember the
\* call that has just returned.  Every local of matchByRules is declared inside it
\* (line 214: a new object per call), so a call starts from nothing but its arguments.
Call ==
    /\ pc = "done"
    /\ \E rs \in CallRules, ctx \in Contexts :
            /\ rules' = rs
            /\ context' = ctx
    /\ pc' = "call"
    /\ rulesByModel' = EmptyObject
    /\ entries' = <<>>
    /\ g' = 0
    /\ match' = TRUE
    /\ result' = NoResult
    /\ \/ prev' = [rules |-> rules, context |-> context, result |-> result]
       \/ UNCHANGED prev
    /\ UNCHANGED storeVars

NextCalls == Group \/ EvalGroup \/ NoMatch \/ Call

SpecCalls == InitCalls /\ [][NextCalls]_vars

-----------------------------------------------------------------------------
(* The store's operations *)

NoMatcher ==
    /\ StartCall(<<>>, [tokenCount |-> 0, hasTools |-> FALSE])
    /\ prev = NoCall

InitStore ==
    /\ optimizationRulesTable = {}
    /\ teamsTable \in TeamsTables
    /\ found = NotFound
    /\ NoMatcher

UsedIds == {r.id : r \in optimizationRulesTable}

\* create(data): the database gives the row its id
create ==
    /\ \E row \in RuleRows :
            /\ row.id \notin UsedIds
            /\ optimizationRulesTable' = optimizationRulesTable \cup {row}
    /\ found' = NotFound
    /\ UNCHANGED teamsTable
    /\ UNCHANGED matcherVars

\* update(id, data): data sets any of the columns of the row with this id
update ==
    /\ \E id \in RuleIds, row \in RuleRows :
            /\ row.id = id
            /\ optimizationRulesTable' =
                   IF id \in UsedIds
                   THEN {r \in optimizationRulesTable : r.id # id} \cup {row}
                   ELSE optimizationRulesTable
    /\ found' = NotFound
    /\ UNCHANGED teamsTable
    /\ UNCHANGED matcherVars

delete ==
    /\ \E id \in RuleIds :
            optimizationRulesTable' = {r \in optimizationRulesTable : r.id # id}
    /\ found' = NotFound
    /\ UNCHANGED teamsTable
    /\ UNCHANGED matcherVars

findByOrganizationId ==
    /\ \E organizationId \in OrgIds :
            found' = [organizationId |-> organizationId,
                      rows |-> FindByOrganizationId(optimizationRulesTable, teamsTable,
                                                    organizationId)]
    /\ UNCHANGED <<optimizationRulesTable, teamsTable>>
    /\ UNCHANGED matcherVars

NextStore == create \/ update \/ delete \/ findByOrganizationId

SpecStore == InitStore /\ [][NextStore]_vars

-----------------------------------------------------------------------------
(* What the properties below speak of *)

\* The target models of the enabled rules, each once, in the order first met
RECURSIVE EncounterOrder(_)
EncounterOrder(rs) ==
    IF rs = <<>> THEN <<>>
    ELSE LET init == SubSeq(rs, 1, Len(rs) - 1)
             last == rs[Len(rs)]
             before == EncounterOrder(init)
         IN  IF last.enabled /\ \A k \in 1..Len(before) : before[k] # last.targetModel
             THEN Append(before, last.targetModel)
             ELSE before

PositionIn(seq, x) == CHOOSE k \in 1..Len(seq) : seq[k] = x

IsEnabled(rule) == rule.enabled

EnabledOnly(rs) == SelectSeq(rs, IsEnabled)

\* The enabled rules of one target model
GroupOf(rs, model) == {rs[k] : k \in {j \in 1..Len(rs) : rs[j].enabled /\ rs[j].targetModel = model}}

IsContentLength(rule) == rule.ruleType = "content_length"

IsToolPresence(rule) == rule.ruleType = "tool_presence"

IsUnknownType(rule) == ~IsContentLength(rule) /\ ~IsToolPresence(rule)

IsMalformed(rule) ==
    \/ IsContentLength(rule) /\ ~HasProp(rule.conditions, "maxLength")
    \/ IsToolPresence(rule) /\ ~HasProp(rule.conditions, "hasTools")

\* A rule matches a context, as the two rule types define it
RuleMatches(rule, ctx) ==
    \/ /\ IsContentLength(rule)
       /\ HasProp(rule.conditions, "maxLength")
       /\ ctx.tokenCount <= rule.conditions.maxLength
    \/ /\ IsToolPresence(rule)
       /\ HasProp(rule.conditions, "hasTools")
       /\ ctx.hasTools = rule.conditions.hasTools

\* The rules a finished call has looked at: in every entry up to the one it
\* stopped at, the rules up to the first that fails
EvaluatedIn(modelRules, ctx) ==
    {modelRules[k] : k \in {y \in 1..Len(modelRules) :
                               \A j \in 1..(y - 1) : ~RuleFails(modelRules[j], ctx)}}

EvaluatedRules ==
    IF result.kind = "throw" THEN {}
    ELSE UNION {EvaluatedIn(entries[e].modelRules, context) :
                    e \in {x \in 1..Len(entries) : x <= g}}

ThrowUnknownRuleType == [kind |-> "throw", value |-> "UnknownRuleType"]

ThrowMalformedConditions == [kind |-> "throw", value |-> "MalformedConditions"]

-----------------------------------------------------------------------------
(* Properties *)

\* C1: a returned model is the first, in the order the target models were first
\* met among the enabled rules, whose group passes entirely: no group met
\* earlier passes every one of its rules (rules judged as matchByRules judges them).
FirstMatchInEncounterOrder ==
    (Done /\ result.kind = "model") =>
        LET order == EncounterOrder(rules)
        IN  \A k \in 1..Len(order) :
                k < PositionIn(order, result.value) =>
                    \E r \in GroupOf(rules, order[k]) : RuleFails(r, context)

\* C2: a model is returned only if every enabled rule with that target model,
\* wherever it stands in the input, matches the context.
ReturnedOnlyIfAllMatch ==
    (Done /\ result.kind = "model") =>
        \A r \in GroupOf(rules, result.value) : RuleMatches(r, context)

\* The statement of C2 on rules of the two known types with conditions of the
\* matching shape (holds of Spec)
ReturnedOnlyIfAllMatchWellFormed ==
    (Done /\ result.kind = "model"
          /\ \A k \in 1..Len(rules) : ~IsUnknownType(rules[k]) /\ ~IsMalformed(rules[k])) =>
        \A r \in GroupOf(rules, result.value) : RuleMatches(r, context)

\* C4: when a rule that was evaluated has a ruleType other than content_length
\* and tool_presence, the call ends in the failure UnknownRuleType.
UnknownRuleTypeFailsClosed ==
    (Done /\ \E r \in EvaluatedRules : IsUnknownType(r)) =>
        result = ThrowUnknownRuleType

\* C5: when a rule that was evaluated has conditions of the wrong shape for its
\* ruleType, the call ends in the failure MalformedConditions: it returns neither
\* a model nor null.
MalformedConditionsSurface ==
    (Done /\ \E r \in EvaluatedRules : IsMalformed(r)) =>
        result = ThrowMalformedConditions

-----------------------------------------------------------------------------
(* Properties that hold *)

AllEnabled(rs) == [k \in 1..Len(rs) |-> [rs[k] EXCEPT !.enabled = TRUE]]

\* C3: a call returns what matchByRules returns on the input with its disabled
\* rules removed; with no enabled rule at all it returns null.
DisabledRulesNeverAffect ==
    Done =>
        /\ result = MatchByRules(EnabledOnly(rules), context)
        /\ (EnabledOnly(rules) = <<>> => result = ReturnNull)

\* a disabled rule that would have changed the result, had it counted
DisabledRuleIgnored ==
    /\ Done
    /\ EnabledOnly(rules) # rules
    /\ EnabledOnly(rules) # <<>>
    /\ MatchByRules(AllEnabled(rules), context) # result

\* The enabled rules of a call, when there is exactly one
OnlyEnabledRule == EnabledOnly(rules)[1]

\* C6: a content_length rule with maxLength N passes exactly the contexts with
\* tokenCount <= N.  Alone among the enabled rules it makes the call return its
\* model when tokenCount <= N and null when tokenCount > N; in any input a model
\* is returned only if tokenCount <= N for each of its content_length rules.
ContentLengthBoundInclusive ==
    Done =>
        /\ (Len(EnabledOnly(rules)) = 1 /\ IsContentLength(OnlyEnabledRule)) =>
               IF context.tokenCount <= OnlyEnabledRule.conditions.maxLength
               THEN result = ReturnModel(OnlyEnabledRule.targetModel)
               ELSE result = ReturnNull
        /\ result.kind = "model" =>
               \A r \in GroupOf(rules, result.value) :
                   IsContentLength(r) => context.tokenCount <= r.conditions.maxLength

\* the bound itself: tokenCount = maxLength, and the model is returned
ContentLengthAtBound ==
    /\ Done
    /\ Len(EnabledOnly(rules)) = 1
    /\ IsContentLength(OnlyEnabledRule)
    /\ OnlyEnabledRule.conditions.maxLength = MaxLength
    /\ context.tokenCount = MaxLength
    /\ result = ReturnModel(OnlyEnabledRule.targetModel)

\* C7: a tool_presence rule passes exactly the contexts whose hasTools equals its
\* own.  Alone among the enabled rules it makes the call return its model when the
\* two are equal and null when they differ; in any input a model is returned only
\* if the two are equal for each of its tool_presence rules.
ToolPresenceEquality ==
    Done =>
        /\ (Len(EnabledOnly(rules)) = 1 /\ IsToolPresence(OnlyEnabledRule)) =>
               IF context.hasTools = OnlyEnabledRule.conditions.hasTools
               THEN result = ReturnModel(OnlyEnabledRule.targetModel)
               ELSE result = ReturnNull
        /\ result.kind = "model" =>
               \A r \in GroupOf(rules, result.value) :
                   IsToolPresence(r) => context.hasTools = r.conditions.hasTools

\* a rule asking for no tools, and a request without tools
ToolPresenceNoTools ==
    /\ Done
    /\ Len(EnabledOnly(rules)) = 1
    /\ IsToolPresence(OnlyEnabledRule)
    /\ ~OnlyEnabledRule.conditions.hasTools
    /\ ~context.hasTools
    /\ result = ReturnModel(OnlyEnabledRule.targetModel)

\* The orderings of rs that keep the order in which the target models are first met
Reorderings(rs) ==
    {p \in {[k \in 1..Len(rs) |-> rs[f[k]]] : f \in Permutations(1..Len(rs))} :
        EncounterOrder(p) = EncounterOrder(rs)}

\* C8: reordering the input so that every target model is still first met in the
\* same order (in particular, reordering rules inside one group) does not change
\* what matchByRules returns.
GroupingIsStable ==
    Done => \A p \in Reorderings(rules) : MatchByRules(p, context) = result

\* two groups, and a group of a failing and a passing rule that can be swapped
GroupReordered ==
    /\ Done
    /\ Len(entries) = 2
    /\ \E e \in 1..Len(entries) :
           /\ Len(entries[e].modelRules) = 2
           /\ RuleFails(entries[e].modelRules[1], context)
           /\ ~RuleFails(entries[e].modelRules[2], context)
    /\ \E p \in Reorderings(rules) : p # rules

\* C9: matchByRules changes neither its rules nor its context while it runs, and
\* a call with the arguments of a remembered earlier call returns what that call
\* returned, whatever calls were made in between.
MatchByRulesIsPure ==
    /\ [][pc # "done" => (rules' = rules /\ context' = context)]_vars
    /\ [](Done /\ prev.result # NoResult /\ prev.rules = rules /\ prev.context = context
            => result = prev.result)

\* a second call with the arguments of a remembered one has returned a model
SameArgumentsAgain ==
    /\ Done
    /\ prev.result # NoResult
    /\ prev.rules = rules
    /\ prev.context = context
    /\ rules # <<>>
    /\ result.kind = "model"

\* A rule belongs to an organization: it is the organization's own, or a team's
\* and the team is the organization's
BelongsTo(r, organizationId) ==
    \/ r.entityType = "organization" /\ r.entityId = organizationId
    \/ /\ r.entityType = "team"
       /\ \E t \in teamsTable : t.id = r.entityId /\ t.organizationId = organizationId

\* C10: findByOrganizationId(org) returns the stored rules that belong to org,
\* each once, and nothing else.
FindByOrganizationIdExact ==
    found.organizationId # Null =>
        /\ DOMAIN found.rows = {r \in optimizationRulesTable : BelongsTo(r, found.organizationId)}
        /\ \A r \in DOMAIN found.rows : found.rows[r] = 1

\* a disabled rule of one of the organization's teams is returned, and a stored
\* rule of a team that does not exist is left out
FoundTeamRuleOnly ==
    /\ found.organizationId # Null
    /\ \E r \in DOMAIN found.rows : r.entityType = "team" /\ ~r.enabled
    /\ \E r \in optimizationRulesTable :
           /\ r.entityType = "team"
           /\ \A t \in teamsTable : t.id # r.entityId
           /\ r \notin DOMAIN found.rows

=============================================================================
